---- MODULE Spec2Model ----
(***************************************************************************)
(* Model of the unipred ingestion engine (unipred-core/src/ingestion),     *)
(* its two stores (storage/duck.rs, storage/lance.rs) and the unified      *)
(* fetch commands (commands/markets.rs, commands/events.rs).               *)
(*                                                                         *)
(* Option<T> is modelled as a sequence: <<>> is None and <<x>> is Some(x). *)
(* A step of the model is the code between two await points of a task.     *)
(***************************************************************************)
EXTENDS Integers, Sequences, FiniteSets, TLC

\* ------------------------------------------------------------------ bounds
\* The mock source hands out at most MaxSrcPages cursors that advance a task.
MaxSrcPages == 1
\* The largest max_pages a filter carries.
MaxPagesLimit == 1
\* The longest batch handed directly to the Table Store API, and the longest
\* page of the Polymarket mock in the runs where every call succeeds.
MaxBatch == 2
\* The longest exchange list and status list of a filter.
MaxListLen == 2
\* The longest ticker handed to get_quote.
MaxTickerLen == 3

\* ------------------------------------------------------- program constants
max_retries == 5
VECTOR_DIM == 384
WrongDim == VECTOR_DIM - 1

None == <<>>
Some(x) == <<x>>

Tickers == {"T1", "T2"}
Payloads == {"p1", "p2"}
Cursors == {"c1", "c2"}
Kinds == {"markets", "events"}

RECURSIVE Pow2(_)
Pow2(k) == IF k = 0 THEN 1 ELSE 2 * Pow2(k - 1)

RECURSIVE SumSeq(_)
SumSeq(s) == IF s = <<>> THEN 0 ELSE Head(s) + SumSeq(Tail(s))

SeqsUpTo(S, n) == UNION {[1..k -> S] : k \in 0..n}

\* ------------------------------------------------------------------ state
VARIABLES
    runPc,      \* run(): "idle", "joining", "index", "events_index", "done"
    runResult,  \* what run() returned: [state, task, cause, context]
    tasks,      \* the futures pushed by run(), in submission order
    max_pages,  \* filters.max_pages: Option<usize>
    filter,     \* history: the filters run() was called with
    quote,      \* the get_quote call: its arguments, the exchange clients
                \* it called and whether it returned Ok
    py_call,    \* history: the exchange names the Python ingest_all was
                \* called with (None: run() was called directly)
    kalshi,     \* the Kalshi client's curr_token, member_id, api_key_id and
                \* private_key, each an Option
    last_call,  \* history: the last login / login_apikey call on the client,
                \* whether it returned Ok and the fields it found
    has_cancel, \* cancel_check.is_some()
    loc,        \* per task, the locals of its future: pc (the await point it is
                \* suspended at), cursor, page_count, retries, request (what the
                \* exchange client was called with), response, lance_records,
                \* table_exists (the answer of table_names() inside add_*)
    result,     \* per task: [state, cause, context]
    hist,       \* per task, history: fetch_ok (calls of cmd.execute that returned
                \* Ok), fetch_failed (calls that returned Err for the page being
                \* fetched), slept (backoff sleeps of the page being fetched),
                \* committed / appended (pages written to each store),
                \* embed_failed (the embedder returned Err), cancelled
                \* (cancel_check returned Err), polled (calls of cancel_check),
                \* pages (the records of each page cmd.execute returned, in
                \* order), empty_cursor (the cursor that came with an empty
                \* page), bad_vector (the embedder returned a vector whose
                \* length is not VECTOR_DIM)
    duck,       \* DuckStore: [markets, events], each a set of rows
    duckLock,   \* Mutex<DuckStore>: 0 free, else the task holding the guard
    lance,      \* LanceStore: [markets, events], each None or Some(rows)
    indexCalls, \* calls of create_index / create_events_index made by run()
    latest,     \* history: per table, the row last committed for each key
    replaced,   \* history: a committed upsert changed the row of a stored key
    firstFailed \* history: the task whose future returned Err first in time

taskVars == <<loc, result, hist, firstFailed>>
storeVars == <<duck, duckLock, lance, latest, replaced>>
runVars == <<runPc, runResult, tasks, max_pages, has_cancel, filter, quote, py_call,
             kalshi, last_call, indexCalls>>
vars == <<runVars, taskVars, storeVars>>

TaskIds == 1..Len(tasks)

\* ------------------------------------------------------- IngestionEngine::run
IngestionFilter(ex, st, mp) == [exchanges |-> ex, statuses |-> st, max_pages |-> mp]

EffExchanges(filters) ==
    IF filters.exchanges = <<>> THEN <<"Kalshi", "Polymarket">> ELSE filters.exchanges

EffStatuses(filters) ==
    IF filters.statuses = <<>> THEN <<"active", "closed">> ELSE filters.statuses

Task(kind, exchange, status) == [kind |-> kind, exchange |-> exchange, status |-> status]

RECURSIVE StatusTasks(_, _)
StatusTasks(exchange, statuses) ==
    IF statuses = <<>> THEN <<>>
    ELSE <<Task("markets", exchange, Some(Head(statuses)))>>
         \o (IF exchange = "Kalshi"
             THEN <<Task("events", exchange, Some(Head(statuses)))>>
             ELSE <<>>)
         \o StatusTasks(exchange, Tail(statuses))

RECURSIVE BuildTasks(_, _)
BuildTasks(exchanges, statuses) ==
    IF exchanges = <<>> THEN <<>>
    ELSE (IF Head(exchanges) = "Polymarket"
          THEN <<Task("markets", "Polymarket", None)>>
          ELSE StatusTasks(Head(exchanges), statuses))
         \o BuildTasks(Tail(exchanges), statuses)

RunTasks(filters) == BuildTasks(EffExchanges(filters), EffStatuses(filters))

Running == [state |-> "Running", cause |-> "", context |-> ""]
\* Ok(()); cause tells which break left the loop: "limit" (max_pages), "empty"
\* (an empty page), "end" (an empty cursor) or "stalled" (a repeated cursor).
Completed(cause) == [state |-> "Completed", cause |-> cause, context |-> ""]
Failed(state, cause, context) == [state |-> state, cause |-> cause, context |-> context]
IsErr(r) == r.state \in {"Aborted", "Fatal"}
Terminal(t) == loc[t].pc = "done"

NoResult == [state |-> "Running", task |-> 0, cause |-> "", context |-> ""]
EmptyStore == [markets |-> {}, events |-> {}]
NoTables == [markets |-> None, events |-> None]

NoPage == [cursor |-> "", items |-> <<>>]
NoRequest == [cursor |-> None, status |-> None]

\* The locals of a future that has not been polled yet; also what is left of
\* them once the future has returned.
NoLocals(at) == [pc |-> at, cursor |-> None, page_count |-> 0, retries |-> 0,
                 request |-> NoRequest, response |-> NoPage,
                 lance_records |-> <<>>, table_exists |-> FALSE]
NoHistory == [fetch_ok |-> 0, fetch_failed |-> 0, slept |-> <<>>,
              committed |-> 0, appended |-> 0, embed_failed |-> FALSE,
              cancelled |-> FALSE, polled |-> 0, pages |-> <<>>,
              empty_cursor |-> None, bad_vector |-> FALSE]

\* A client on which no login has succeeded yet.
NewClient == [curr_token |-> None, member_id |-> None, api_key_id |-> None,
              private_key |-> None]
NoCall == [method |-> "", ok |-> FALSE, before |-> NewClient]

NoQuote == [made |-> FALSE, ticker |-> <<>>, exchange |-> None, called |-> {},
            ok |-> FALSE]

Init ==
    /\ runPc = "idle"
    /\ runResult = NoResult
    /\ tasks = <<>>
    /\ max_pages = None
    /\ filter = IngestionFilter(<<>>, <<>>, None)
    /\ quote = NoQuote
    /\ py_call = None
    /\ kalshi = NewClient
    /\ last_call = NoCall
    /\ has_cancel = FALSE
    /\ loc = <<>>
    /\ result = <<>>
    /\ hist = <<>>
    /\ duck = EmptyStore
    /\ duckLock = 0
    /\ lance = NoTables
    /\ indexCalls = [markets |-> 0, events |-> 0]
    /\ latest = EmptyStore
    /\ replaced = FALSE
    /\ firstFailed = 0

\* run(core, filters, cancel_check) up to join_all(tasks): the futures are built
\* and each starts at the head of its loop.
RunWith(filters, cancel) ==
    /\ runPc = "idle"
    /\ tasks' = RunTasks(filters)
    /\ loc' = [t \in 1..Len(RunTasks(filters)) |-> NoLocals("top")]
    /\ result' = [t \in 1..Len(RunTasks(filters)) |-> Running]
    /\ hist' = [t \in 1..Len(RunTasks(filters)) |-> NoHistory]
    /\ max_pages' = filters.max_pages
    /\ filter' = filters
    /\ has_cancel' = cancel
    /\ runPc' = "joining"
    /\ UNCHANGED <<runResult, indexCalls, quote, kalshi, last_call, firstFailed,
                   storeVars>>

\* run() called by a Rust caller.
Run(filters, cancel) == RunWith(filters, cancel) /\ UNCHANGED py_call

\* ------------------------------------------- commands: FetchMarkets, FetchEvents
UnwrapOrDefault(opt) == IF opt = None THEN "" ELSE opt[1]

ExecErr == [ok |-> FALSE, cursor |-> "", items |-> <<>>]

NotMve(m) == ~m.mve

RECURSIVE MapUnified(_, _)
MapUnified(items, source) ==
    IF items = <<>> THEN <<>>
    ELSE <<[ticker |-> Head(items).ticker, source |-> source,
            payload |-> Head(items).payload]>>
         \o MapUnified(Tail(items), source)

\* ingest_loop's "Map unified 'active' status to Kalshi API 'open'".
ApiStatus(exchange, s) == IF exchange = "Kalshi" /\ s = "active" THEN "open" ELSE s

\* Mutant: FetchEvents::execute hands the status on as it got it.
EventsApiStatus_PassThrough(status) == status

\* FetchEvents::execute's own translation for Kalshi.
EventsApiStatus(status) ==
    IF status = None THEN None
    ELSE IF status[1] = "active" THEN Some("open") ELSE status

\* The command ingest_loop builds for a fetch.
MarketsCmd(exchange, cur, status) ==
    [exchange |-> Some(exchange), limit |-> Some(100), cursor |-> cur,
     status |-> IF status = None THEN None ELSE Some(ApiStatus(exchange, status[1]))]

\* The command ingest_events_loop builds for a fetch.
EventsCmd(exchange, cur, status) ==
    [exchange |-> Some(exchange), limit |-> Some(100), cursor |-> cur, status |-> status]

CmdSource(cmd) == IF cmd.exchange = None THEN "Kalshi" ELSE cmd.exchange[1]

\* What FetchMarkets::execute hands to the exchange client.
MarketsRequest(cmd) ==
    IF CmdSource(cmd) = "Kalshi" THEN [cursor |-> cmd.cursor, status |-> cmd.status]
    ELSE [cursor |-> cmd.cursor, status |-> None]

\* What FetchEvents::execute hands to the exchange client.
EventsRequest(cmd) ==
    IF CmdSource(cmd) = "Kalshi"
    THEN [cursor |-> cmd.cursor, status |-> EventsApiStatus(cmd.status)]
    ELSE NoRequest

\* FetchMarkets::execute, given the outcome of the exchange client's call.
FetchMarkets_execute(cmd, outcome) ==
    CASE CmdSource(cmd) = "Kalshi" ->
            IF ~outcome.ok THEN ExecErr
            ELSE [ok |-> TRUE, cursor |-> UnwrapOrDefault(outcome.cursor),
                  items |-> MapUnified(SelectSeq(outcome.items, NotMve), "Kalshi")]
      [] CmdSource(cmd) = "Polymarket" ->
            IF ~outcome.ok THEN ExecErr
            ELSE [ok |-> TRUE, cursor |-> UnwrapOrDefault(outcome.cursor),
                  items |-> MapUnified(outcome.items, "Polymarket")]
      [] OTHER -> ExecErr

\* FetchEvents::execute, given the outcome of the exchange client's call.
FetchEvents_execute(cmd, outcome) ==
    CASE CmdSource(cmd) = "Kalshi" ->
            IF ~outcome.ok THEN ExecErr
            ELSE [ok |-> TRUE, cursor |-> UnwrapOrDefault(outcome.cursor),
                  items |-> MapUnified(outcome.items, "Kalshi")]
      [] CmdSource(cmd) = "Polymarket" -> [ok |-> TRUE, cursor |-> "", items |-> <<>>]
      [] OTHER -> ExecErr

TaskCmd(t) ==
    IF tasks[t].kind = "markets"
    THEN MarketsCmd(tasks[t].exchange, loc[t].cursor, tasks[t].status)
    ELSE EventsCmd(tasks[t].exchange, loc[t].cursor, tasks[t].status)

\* Mutant: the command is built without the cursor.
TaskRequest_NoCursor(t) ==
    [cursor |-> None,
     status |-> (IF tasks[t].kind = "markets" THEN MarketsRequest(TaskCmd(t))
                 ELSE EventsRequest(TaskCmd(t))).status]

\* What the attempt about to be made hands to the exchange client: the command
\* is built from the loop's cursor at every attempt.
TaskRequest(t) ==
    IF tasks[t].kind = "markets" THEN MarketsRequest(TaskCmd(t))
    ELSE EventsRequest(TaskCmd(t))

Execute(t, outcome) ==
    IF tasks[t].kind = "markets" THEN FetchMarkets_execute(TaskCmd(t), outcome)
    ELSE FetchEvents_execute(TaskCmd(t), outcome)

ClientErr == [ok |-> FALSE, cursor |-> None, items |-> <<>>]
ClientOk(cur, items) == [ok |-> TRUE, cursor |-> cur, items |-> items]

\* --------------------------------------------- ingest_loop / ingest_events_loop
FailedTasks == {t \in TaskIds : IsErr(result[t])}

\* Mutant: the first Err stops the polling of the other futures (try_join_all).
At_FailFast(t, at) == runPc = "joining" /\ loc[t].pc = at /\ FailedTasks = {}

\* join_all polls every future that has not returned, whatever the others
\* returned.
At(t, at) == runPc = "joining" /\ loc[t].pc = at

\* The future returns r: its locals are dropped.
Finish(t, r) ==
    /\ loc' = [loc EXCEPT ![t] = NoLocals("done")]
    /\ result' = [result EXCEPT ![t] = r]
    /\ firstFailed' = IF IsErr(r) /\ firstFailed = 0 THEN t ELSE firstFailed

\* Mutant: the limit is tested with > instead of >=.
LimitReached_OffByOne(limit, count) == limit # None /\ count > limit[1]

\* The max_pages test at the head of the loop.
LimitReached(limit, count) == limit # None /\ count >= limit[1]

\* Mutant: the counter is declared outside the page loop and lives on.
FreshRetries_Carried(r) == r

\* `let mut retries = 0` in the body of the page loop: the counter of the page
\* before is out of scope once its fetch has returned.
FreshRetries(r) == 0

\* Mutant: the Err of cancel_check is dropped.
CheckErr_Ignored(cancelled) == FALSE

\* `check()?`: an Err of cancel_check returns from the loop.
CheckErr(cancelled) == cancelled

\* Mutant: cancel_check is called first thing in the iteration, before the
\* max_pages test.
CheckCalls_BeforeLimit(has, limited) == IF has THEN 1 ELSE 0

\* The calls of cancel_check one pass through the head of the loop makes:
\* `if let Some(check) = cancel_check` comes after the max_pages break.
CheckCalls(has, limited) == IF has /\ ~limited THEN 1 ELSE 0

\* Head of the loop: the max_pages test, cancel_check, then the first attempt
\* of the page's fetch is issued with retries = 0.
IterTop(t, cancelled) ==
    /\ At(t, "top")
    /\ cancelled => has_cancel
    /\ IF LimitReached(max_pages, loc[t].page_count)
       THEN /\ ~cancelled
            /\ Finish(t, Completed("limit"))
            /\ hist' = [hist EXCEPT ![t].polled = @ + CheckCalls(has_cancel, TRUE)]
       ELSE IF CheckErr(cancelled)
       THEN /\ Finish(t, Failed("Aborted", "cancel", ""))
            /\ hist' = [hist EXCEPT ![t].cancelled = cancelled,
                                    ![t].polled = @ + CheckCalls(has_cancel, FALSE)]
       ELSE /\ loc' = [loc EXCEPT ![t].pc = "fetch",
                                  ![t].retries = FreshRetries(loc[t].retries),
                                  ![t].request = TaskRequest(t)]
            /\ hist' = [hist EXCEPT ![t].fetch_failed = 0, ![t].slept = <<>>,
                                    ![t].cancelled = cancelled,
                                    ![t].polled = @ + CheckCalls(has_cancel, FALSE)]
            /\ UNCHANGED <<result, firstFailed>>
    /\ UNCHANGED <<runVars, storeVars>>

RetryContext(kind) ==
    IF kind = "markets" THEN "Max retries exceeded"
    ELSE "Max retries exceeded fetching events"

\* Which attributes of the failed task the text of a context names: the events
\* loop's text names the record kind, the markets loop's text names nothing.
ContextNames(context) ==
    IF context = "Max retries exceeded fetching events" THEN {"kind"} ELSE {}

\* Mutant: the attempt that fails with retries = max_retries - 1 already ends
\* the task.
RetriesExhausted_Early(r) == r >= max_retries - 1

\* Whether a failed attempt ends the task.
RetriesExhausted(r) == r >= max_retries

\* cmd.execute(core) returned Err.
FetchErr(t, outcome) ==
    /\ At(t, "fetch")
    /\ ~Execute(t, outcome).ok
    /\ hist' = [hist EXCEPT ![t].fetch_failed = @ + 1]
    /\ IF RetriesExhausted(loc[t].retries)
       THEN Finish(t, Failed("Fatal", "fetch", RetryContext(tasks[t].kind)))
       ELSE /\ loc' = [loc EXCEPT ![t].pc = "backoff", ![t].request = NoRequest]
            /\ UNCHANGED <<result, firstFailed>>
    /\ UNCHANGED <<runVars, storeVars>>

\* Mutant: a linear backoff.
BackoffSecs_Linear(r) == r + 1

BackoffSecs(r) == Pow2(r)

\* sleep(Duration::from_secs(2u64.pow(retries))) elapsed; retries += 1 and the
\* command is issued again.
Backoff(t) ==
    /\ At(t, "backoff")
    /\ hist' = [hist EXCEPT ![t].slept = Append(@, BackoffSecs(loc[t].retries))]
    /\ loc' = [loc EXCEPT ![t].pc = "fetch", ![t].retries = @ + 1,
                          ![t].request = TaskRequest(t)]
    /\ UNCHANGED <<result, firstFailed, runVars, storeVars>>

\* The mock source is finite: it hands out a cursor that advances the task only
\* while the task has consumed fewer than MaxSrcPages such cursors.
SourceAllows(t, page) ==
    \/ page.cursor = ""
    \/ Some(page.cursor) = loc[t].cursor
    \/ loc[t].page_count < MaxSrcPages

\* Mutant: no page counts as empty, so the break is never taken.
is_empty_Never(items) == FALSE

\* Vec::is_empty on the records of the response.
is_empty(items) == items = <<>>

\* Mutant: the loop also stops before writing a page that has no next cursor.
EmptyPage_OrLastCursor(page) == is_empty(page.items) \/ page.cursor = ""

\* `if response.markets.is_empty() { break; }`, likewise for events.
EmptyPage(page) == is_empty(page.items)

\* cmd.execute(core) returned Ok(res): an empty page ends the loop, any other
\* page goes to the Table Store first (duck_store.lock().await). The retry
\* counter is not read again in this iteration.
FetchOk(t, outcome) ==
    /\ At(t, "fetch")
    /\ Execute(t, outcome).ok
    /\ SourceAllows(t, Execute(t, outcome))
    /\ hist' = [hist EXCEPT ![t].fetch_ok = @ + 1, ![t].fetch_failed = 0,
                            ![t].slept = <<>>,
                            ![t].pages = Append(@, Execute(t, outcome).items),
                            ![t].empty_cursor =
                                IF Execute(t, outcome).items = <<>>
                                THEN Some(Execute(t, outcome).cursor) ELSE @]
    /\ IF EmptyPage(Execute(t, outcome))
       THEN Finish(t, Completed("empty"))
       ELSE /\ loc' = [loc EXCEPT ![t].pc = "lock",
                                  ![t].retries = FreshRetries(loc[t].retries),
                                  ![t].request = NoRequest,
                                  ![t].response =
                                      [cursor |-> Execute(t, outcome).cursor,
                                       items |-> Execute(t, outcome).items]]
            /\ UNCHANGED <<result, firstFailed>>
    /\ UNCHANGED <<runVars, storeVars>>

\* ------------------------------------------------------------------ DuckStore
SameKey(a, b) == a.ticker = b.ticker /\ a.source = b.source

\* Mutant: a plain INSERT into a table without the primary key.
InsertOrReplace_Plain(table, row) == table \cup {row}

\* One "INSERT OR REPLACE" under PRIMARY KEY (ticker, source).
InsertOrReplace(table, row) == {x \in table : ~SameKey(x, row)} \cup {row}

\* Mutant: the transaction is never committed.
insert_batch_Uncommitted(table, markets) == table

\* DuckStore::insert_batch with the transaction committed.
RECURSIVE insert_batch(_, _)
insert_batch(table, markets) ==
    IF markets = <<>> THEN table
    ELSE insert_batch(InsertOrReplace(table, Head(markets)), Tail(markets))

\* DuckStore::insert_events_batch with the transaction committed.
RECURSIVE insert_events_batch(_, _)
insert_events_batch(table, events) ==
    IF events = <<>> THEN table
    ELSE insert_events_batch(InsertOrReplace(table, Head(events)), Tail(events))

DuckInsert(store, kind, batch) ==
    IF kind = "markets"
    THEN [store EXCEPT !.markets = insert_batch(@, batch)]
    ELSE [store EXCEPT !.events = insert_events_batch(@, batch)]

\* History: the rows a committed batch leaves as the last write of their keys.
LastOfKey(batch, i) == \A j \in (i + 1)..Len(batch) : ~SameKey(batch[j], batch[i])
Commit(store, kind, batch) ==
    LET old == IF kind = "markets" THEN store.markets ELSE store.events
        new == {x \in old : \A i \in 1..Len(batch) : ~SameKey(x, batch[i])}
               \cup {batch[i] : i \in {j \in 1..Len(batch) : LastOfKey(batch, j)}}
    IN IF kind = "markets" THEN [store EXCEPT !.markets = new]
       ELSE [store EXCEPT !.events = new]

\* History: the batch rewrites a stored key with another row.
Replaces(store, kind, batch) ==
    \E i \in 1..Len(batch) :
        \E x \in (IF kind = "markets" THEN store.markets ELSE store.events) :
            SameKey(x, batch[i]) /\ x # batch[i]

\* Mutant: the store is shared without the Mutex.
LockFree_NoMutex(lock) == TRUE

\* tokio's Mutex hands out the guard only while no other guard is alive.
LockFree(lock) == lock = 0

\* self.duck_store.lock().await returned the guard.
AcquireDuck(t) ==
    /\ At(t, "lock")
    /\ LockFree(duckLock)
    /\ duckLock' = t
    /\ loc' = [loc EXCEPT ![t].pc = "insert"]
    /\ UNCHANGED <<result, hist, firstFailed, runVars, duck, lance, latest, replaced>>

\* Mutant: the guard is declared in the body of the loop, not in a block of
\* its own, and lives on through the rest of the iteration.
DropGuard_EndOfIteration(t) == t

\* The guard `duck` is a local of the block around the insert: it is dropped
\* at the closing brace, before the texts are built for the embedder.
DropGuard(t) == 0

\* Mutant: the guard is not released when insert_batch returns Err.
GuardAfter_HeldOnErr(t, ok) == IF ok THEN 0 ELSE t

\* The guard `duck` goes out of scope at the end of its block, also when `?`
\* returns the error.
GuardAfter(t, ok) == DropGuard(t)

\* Mutant: the rows are executed without a transaction, so those executed
\* before the error stay.
DroppedTransaction_AutoCommit(table, batch, n) == insert_batch(table, SubSeq(batch, 1, n))

\* `?` returns from insert_batch / insert_events_batch after n rows were
\* executed: the Transaction is dropped without commit, which rolls it back.
DroppedTransaction(table, batch, n) == table

\* Mutant: the embedding and the append of the page are spawned and not
\* awaited; the loop goes on to its inter-page sleep.
AfterInsert_Detached(page) == "sleep"

\* After the Table Store block the loop awaits the embedder and then
\* add_markets / add_events for the same page.
AfterInsert(page) == "embed"

\* duck.insert_batch(&response.markets)? inside the guard's block: the batch
\* commits, or the transaction is dropped uncommitted and the error returns.
\* Either way the guard is dropped. On success the texts go to the embedder
\* (spawn_blocking).
InsertBatch(t, ok) ==
    /\ At(t, "insert")
    /\ duckLock = t
    /\ duckLock' = GuardAfter(t, ok)
    /\ IF ok
       THEN /\ duck' = DuckInsert(duck, tasks[t].kind, loc[t].response.items)
            /\ latest' = Commit(latest, tasks[t].kind, loc[t].response.items)
            /\ replaced' = (replaced \/ Replaces(duck, tasks[t].kind,
                                                  loc[t].response.items))
            /\ hist' = [hist EXCEPT ![t].committed = @ + 1]
            /\ loc' = [loc EXCEPT ![t].pc = AfterInsert(loc[t].response)]
            /\ UNCHANGED <<result, firstFailed>>
       ELSE /\ Finish(t, Failed("Fatal", "duck", ""))
            /\ \E n \in 0..Len(loc[t].response.items) :
                  duck' = IF tasks[t].kind = "markets"
                          THEN [duck EXCEPT !.markets =
                                   DroppedTransaction(@, loc[t].response.items, n)]
                          ELSE [duck EXCEPT !.events =
                                   DroppedTransaction(@, loc[t].response.items, n)]
            /\ UNCHANGED <<latest, replaced, hist>>
    /\ UNCHANGED <<runVars, lance>>

\* ----------------------------------------------------------------- LanceStore
\* Mutant: the id is the ticker alone.
EmbeddingId_TickerOnly(exchange, ticker) == <<"", ticker>>

\* format!("{:?}:{}", exchange, ticker)
EmbeddingId(exchange, ticker) == <<exchange, ticker>>

\* The records zipped from the page and the embedder's vectors (a vector is
\* modelled by its length).
RECURSIVE ZipRecords(_, _, _)
ZipRecords(exchange, items, vectors) ==
    IF items = <<>> \/ vectors = <<>> THEN <<>>
    ELSE <<[id |-> EmbeddingId(exchange, Head(items).ticker),
            vector |-> Head(vectors),
            ticker |-> Head(items).ticker,
            source |-> Head(items).source,
            payload |-> Head(items).payload]>>
         \o ZipRecords(exchange, Tail(items), Tail(vectors))

\* Mutant: the length of the vectors is not looked at.
create_record_batch_Unchecked(records) == TRUE

\* LanceStore::create_record_batch: Err on any vector of another length.
create_record_batch(records) ==
    \A i \in 1..Len(records) : records[i].vector = VECTOR_DIM

\* Mutant: a failed write drops the table.
add_markets_DropOnErr(table, seen, records, io_ok) ==
    IF io_ok /\ (seen <=> table # None)
    THEN [ok |-> TRUE, table |-> Some((IF table = None THEN <<>> ELSE table[1]) \o records)]
    ELSE [ok |-> FALSE, table |-> None]

\* The tail of LanceStore::add_markets after table_names(): append to the table
\* that was seen, or create it. create_table fails on a table that exists.
add_markets(table, seen, records, io_ok) ==
    IF seen
    THEN IF io_ok /\ table # None
         THEN [ok |-> TRUE, table |-> Some(table[1] \o records)]
         ELSE [ok |-> FALSE, table |-> table]
    ELSE IF io_ok /\ table = None
         THEN [ok |-> TRUE, table |-> Some(records)]
         ELSE [ok |-> FALSE, table |-> table]

\* LanceStore::add_events: create-table-if-absent then append.
add_events(table, seen, records, io_ok) ==
    IF seen
    THEN IF io_ok /\ table # None
         THEN [ok |-> TRUE, table |-> Some(table[1] \o records)]
         ELSE [ok |-> FALSE, table |-> table]
    ELSE IF io_ok /\ table = None
         THEN [ok |-> TRUE, table |-> Some(records)]
         ELSE [ok |-> FALSE, table |-> table]

LanceTable(kind) == IF kind = "markets" THEN lance.markets ELSE lance.events

LanceAddResult(t, io_ok) ==
    IF tasks[t].kind = "markets"
    THEN add_markets(lance.markets, loc[t].table_exists, loc[t].lance_records, io_ok)
    ELSE add_events(lance.events, loc[t].table_exists, loc[t].lance_records, io_ok)

\* Mutant: the embedder's Err is swallowed.
EmbedErr_Swallowed(ok) == FALSE

\* `.await??` on the embedder's result: an Err returns from the loop.
EmbedErr(ok) == ~ok

\* spawn_blocking(embed_batch) returned. On Ok the records are built and
\* add_markets runs up to its table_names() call.
Embed(t, ok, vectors) ==
    /\ At(t, "embed")
    /\ Len(vectors) = Len(loc[t].response.items)
    /\ hist' = [hist EXCEPT ![t].embed_failed = ~ok,
                            ![t].bad_vector =
                                ok /\ \E i \in 1..Len(vectors) : vectors[i] # VECTOR_DIM]
    /\ IF EmbedErr(ok)
       THEN Finish(t, Failed("Fatal", "embed", ""))
       ELSE IF ~create_record_batch(
                    ZipRecords(tasks[t].exchange, loc[t].response.items, vectors))
       THEN Finish(t, Failed("Fatal", "dimension", ""))
       ELSE /\ loc' = [loc EXCEPT ![t].pc = "lance_names",
                                  ![t].lance_records =
                                      ZipRecords(tasks[t].exchange,
                                                 loc[t].response.items, vectors)]
            /\ UNCHANGED <<result, firstFailed>>
    /\ UNCHANGED <<runVars, storeVars>>

\* table_names().execute().await returned inside add_markets / add_events.
LanceNames(t) ==
    /\ At(t, "lance_names")
    /\ loc' = [loc EXCEPT ![t].pc = "lance_add",
                          ![t].table_exists = LanceTable(tasks[t].kind) # None]
    /\ UNCHANGED <<result, hist, firstFailed, runVars, storeVars>>

\* Mutant: the page counter is never advanced.
NextPageCount_Stuck(n) == n

\* page_count += 1, once the page is written and its cursor taken.
NextPageCount(n) == n + 1

\* Mutant: only an empty cursor ends the loop.
LastPage_EmptyOnly(page, cur) == page.cursor = ""

\* The pagination test after the page is written.
LastPage(page, cur) == page.cursor = "" \/ Some(page.cursor) = cur

\* table.add / create_table returned; then the pagination logic up to the
\* inter-page sleep, where the page itself is no longer used.
LanceAdd(t, io_ok) ==
    /\ At(t, "lance_add")
    /\ lance' = IF tasks[t].kind = "markets"
                THEN [lance EXCEPT !.markets = LanceAddResult(t, io_ok).table]
                ELSE [lance EXCEPT !.events = LanceAddResult(t, io_ok).table]
    /\ IF ~LanceAddResult(t, io_ok).ok
       THEN /\ Finish(t, Failed("Fatal", "lance", ""))
            /\ UNCHANGED hist
       ELSE /\ hist' = [hist EXCEPT ![t].appended = @ + 1]
            /\ IF LastPage(loc[t].response, loc[t].cursor)
               THEN Finish(t, Completed(IF loc[t].response.cursor = "" THEN "end"
                                        ELSE "stalled"))
               ELSE /\ loc' = [loc EXCEPT ![t].pc = "sleep",
                                          ![t].cursor = Some(loc[t].response.cursor),
                                          ![t].page_count = NextPageCount(@),
                                          ![t].response = NoPage,
                                          ![t].lance_records = <<>>,
                                          ![t].table_exists = FALSE]
                    /\ UNCHANGED <<result, firstFailed>>
    /\ UNCHANGED <<runVars, duck, duckLock, latest, replaced>>

\* sleep(Duration::from_millis(100)) elapsed.
Sleep(t) ==
    /\ At(t, "sleep")
    /\ loc' = [loc EXCEPT ![t].pc = "top"]
    /\ UNCHANGED <<result, hist, firstFailed, runVars, storeVars>>

\* -------------------------------------------------- run(): join and the indexes
AllDone == \A t \in TaskIds : Terminal(t)

\* Mutant: the error of the task submitted last is reported.
FirstError_Last(failed) == CHOOSE t \in failed : \A u \in failed : t >= u

\* for res in results { res?; }
FirstError(failed) == CHOOSE t \in failed : \A u \in failed : t <= u

RunErr(t) == [state |-> result[t].state, task |-> t, cause |-> result[t].cause,
              context |-> result[t].context]

\* Mutant: the results of join_all are dropped unread.
HasErr_Unread(failed) == FALSE

\* Whether the loop `for res in results { res?; }` meets an Err.
HasErr(failed) == failed # {}

\* join_all(tasks).await returned: the results are read in submission order.
Join ==
    /\ runPc = "joining"
    /\ AllDone
    /\ IF HasErr(FailedTasks)
       THEN /\ runResult' = RunErr(FirstError(FailedTasks))
            /\ runPc' = "done"
       ELSE /\ runPc' = "index"
            /\ UNCHANGED runResult
    /\ UNCHANGED <<tasks, max_pages, has_cancel, filter, quote, py_call, kalshi,
                   last_call, indexCalls, taskVars, storeVars>>

\* LanceStore::create_index: open_table(TABLE_NAME) fails without the table.
create_index(table) == table # None

\* self.lance_store.create_index().await?
CreateIndex ==
    /\ runPc = "index"
    /\ indexCalls' = [indexCalls EXCEPT !.markets = @ + 1]
    /\ IF create_index(lance.markets)
       THEN /\ runPc' = "events_index"
            /\ UNCHANGED runResult
       ELSE /\ runResult' = [state |-> "Fatal", task |-> 0, cause |-> "index",
                             context |-> ""]
            /\ runPc' = "done"
    /\ UNCHANGED <<tasks, max_pages, has_cancel, filter, quote, py_call, kalshi,
                   last_call, taskVars, storeVars>>

\* LanceStore::create_events_index: a no-op on a store with zero rows.
create_events_index(table) == TRUE

\* self.lance_store.create_events_index().await? and Ok(())
CreateEventsIndex ==
    /\ runPc = "events_index"
    /\ indexCalls' = [indexCalls EXCEPT !.events = @ + 1]
    /\ IF create_events_index(lance.events)
       THEN runResult' = [state |-> "Completed", task |-> 0, cause |-> "",
                         context |-> ""]
       ELSE runResult' = [state |-> "Fatal", task |-> 0, cause |-> "index",
                         context |-> ""]
    /\ runPc' = "done"
    /\ UNCHANGED <<tasks, max_pages, has_cancel, filter, quote, py_call, kalshi,
                   last_call, taskVars, storeVars>>

\* ------------------------------------------------------------- specification
\* The inputs of run(): the filters and whether a cancel_check is given.
ExchangeLists == {<<"Kalshi">>, <<"Polymarket">>}
StatusLists == {<<"active">>, <<"closed">>}
PageLimits == {None} \cup {Some(n) : n \in 0..MaxPagesLimit}
Filters == {IngestionFilter(ex, st, mp) :
               ex \in ExchangeLists, st \in StatusLists, mp \in PageLimits}

\* What the exchange clients may answer.
RawItems(tickers) == [ticker : tickers, payload : {"p1"}, mve : BOOLEAN]
RawCursors == {None} \cup {Some(c) : c \in Cursors}
OutcomesOver(tickers) ==
    {ClientErr} \cup {ClientOk(cur, items) :
                         cur \in RawCursors, items \in SeqsUpTo(RawItems(tickers), 1)}
VectorLens == {VECTOR_DIM, WrongDim}

NextOver(filters, outcomes) ==
    \/ \E f \in filters, c \in BOOLEAN : Run(f, c)
    \/ \E t \in TaskIds, cancelled \in BOOLEAN : IterTop(t, cancelled)
    \/ \E t \in TaskIds, o \in outcomes : FetchOk(t, o)
    \/ \E t \in TaskIds, o \in outcomes : FetchErr(t, o)
    \/ \E t \in TaskIds : Backoff(t)
    \/ \E t \in TaskIds : AcquireDuck(t)
    \/ \E t \in TaskIds, ok \in BOOLEAN : InsertBatch(t, ok)
    \/ \E t \in TaskIds, ok \in BOOLEAN, v \in SeqsUpTo(VectorLens, 1) :
          Embed(t, ok, v)
    \/ \E t \in TaskIds : LanceNames(t)
    \/ \E t \in TaskIds, ok \in BOOLEAN : LanceAdd(t, ok)
    \/ \E t \in TaskIds : Sleep(t)
    \/ Join
    \/ CreateIndex
    \/ CreateEventsIndex

\* The tickers the mock sources of a run know.
SourceTickers == {"T1"}

Next == NextOver(Filters, OutcomesOver(SourceTickers))

Spec == Init /\ [][Next]_vars

\* The runtime keeps polling the futures of join_all, every call to a client,
\* to the embedder or to a store returns, and every sleep elapses. One status
\* list is enough here: no step of a loop depends on the status it sends.
LiveFilters == {f \in Filters : f.statuses = <<"active">>}
NextLive == NextOver(LiveFilters, OutcomesOver(SourceTickers))

SpecLive == Init /\ [][NextLive]_vars /\ WF_vars(NextLive)

\* One poll of the future of task t that makes progress.
TaskStep(t) ==
    \/ \E cancelled \in BOOLEAN : IterTop(t, cancelled)
    \/ \E o \in OutcomesOver(SourceTickers) : FetchOk(t, o) \/ FetchErr(t, o)
    \/ Backoff(t)
    \/ AcquireDuck(t)
    \/ \E ok \in BOOLEAN : InsertBatch(t, ok)
    \/ \E ok \in BOOLEAN, v \in SeqsUpTo(VectorLens, 1) : Embed(t, ok, v)
    \/ LanceNames(t)
    \/ \E ok \in BOOLEAN : LanceAdd(t, ok)
    \/ Sleep(t)

\* ------------------------------------------ runs in which every call succeeds
\* No max_pages, no cancel_check; every fetch, embedding and store write
\* returns Ok. The Polymarket mock returns pages of up to MaxBatch records over
\* Tickers, the Kalshi mock is the one of Spec without its failures.
OkFilters == {IngestionFilter(ex, <<"active">>, None) : ex \in ExchangeLists}
OkOutcomes(t) ==
    IF tasks[t].exchange = "Polymarket"
    THEN {ClientOk(cur, items) :
             cur \in RawCursors,
             items \in SeqsUpTo([ticker : Tickers, payload : {"p1"}, mve : {FALSE}],
                                MaxBatch)}
    ELSE OutcomesOver(SourceTickers) \ {ClientErr}
GoodVectors(n) == [1..n -> {VECTOR_DIM}]

NextOk ==
    \/ \E f \in OkFilters : Run(f, FALSE)
    \/ \E t \in TaskIds : IterTop(t, FALSE)
    \/ \E t \in TaskIds : \E o \in OkOutcomes(t) : FetchOk(t, o)
    \/ \E t \in TaskIds : AcquireDuck(t)
    \/ \E t \in TaskIds : InsertBatch(t, TRUE)
    \/ \E t \in TaskIds :
          \E v \in GoodVectors(Len(loc[t].response.items)) : Embed(t, TRUE, v)
    \/ \E t \in TaskIds : LanceNames(t)
    \/ \E t \in TaskIds : LanceAdd(t, TRUE)
    \/ \E t \in TaskIds : Sleep(t)
    \/ Join
    \/ CreateIndex
    \/ CreateEventsIndex

SpecOk == Init /\ [][NextOk]_vars

\* ------------------------------------------- two tasks that share their tables
\* A filter that names Polymarket twice launches two market tasks on the same
\* source: they write the same keys of the same tables. Fetches and embeddings
\* succeed, the two stores may fail; the mock's records differ in payload.
SharedFilters == {IngestionFilter(<<"Polymarket", "Polymarket">>, <<>>, None)}
SharedOutcomes ==
    {ClientOk(cur, items) :
        cur \in RawCursors,
        items \in SeqsUpTo([ticker : SourceTickers, payload : Payloads, mve : {FALSE}], 1)}

NextShared ==
    \/ \E f \in SharedFilters : Run(f, FALSE)
    \/ \E t \in TaskIds : IterTop(t, FALSE)
    \/ \E t \in TaskIds, o \in SharedOutcomes : FetchOk(t, o)
    \/ \E t \in TaskIds : AcquireDuck(t)
    \/ \E t \in TaskIds, ok \in BOOLEAN : InsertBatch(t, ok)
    \/ \E t \in TaskIds :
          \E v \in GoodVectors(Len(loc[t].response.items)) : Embed(t, TRUE, v)
    \/ \E t \in TaskIds : LanceNames(t)
    \/ \E t \in TaskIds, ok \in BOOLEAN : LanceAdd(t, ok)
    \/ \E t \in TaskIds : Sleep(t)
    \/ Join
    \/ CreateIndex
    \/ CreateEventsIndex

SpecShared == Init /\ [][NextShared]_vars

\* ----------------------------------- several market tasks on a fresh Vector Store
\* Kalshi with both statuses: a markets task and an events task per status. The
\* two markets tasks append to the same Vector Store table, the two events
\* tasks to the other. Every fetch, embedding and store call succeeds as far as
\* the I/O goes, and max_pages = 1 keeps each task to one page.
RaceFilters == {IngestionFilter(<<"Kalshi">>, <<"active", "closed">>, Some(1))}
RaceOutcomes ==
    {ClientOk(cur, items) :
        cur \in {None, Some("c1")},
        items \in SeqsUpTo([ticker : SourceTickers, payload : {"p1"}, mve : {FALSE}], 1)}

NextRace ==
    \/ \E f \in RaceFilters : Run(f, FALSE)
    \/ \E t \in TaskIds : IterTop(t, FALSE)
    \/ \E t \in TaskIds, o \in RaceOutcomes : FetchOk(t, o)
    \/ \E t \in TaskIds : AcquireDuck(t)
    \/ \E t \in TaskIds : InsertBatch(t, TRUE)
    \/ \E t \in TaskIds :
          \E v \in GoodVectors(Len(loc[t].response.items)) : Embed(t, TRUE, v)
    \/ \E t \in TaskIds : LanceNames(t)
    \/ \E t \in TaskIds : LanceAdd(t, TRUE)
    \/ \E t \in TaskIds : Sleep(t)
    \/ Join
    \/ CreateIndex
    \/ CreateEventsIndex

SpecRace == Init /\ [][NextRace]_vars

\* --------------------------------------------- an embedder of uncertain width
\* One Polymarket task with pages of up to MaxBatch records; every call
\* succeeds, but each vector the embedder returns has VECTOR_DIM elements or
\* one less.
DimFilters == {IngestionFilter(<<"Polymarket">>, <<>>, None)}
AnyVectors(n) == [1..n -> VectorLens]

NextDim ==
    \/ \E f \in DimFilters : Run(f, FALSE)
    \/ \E t \in TaskIds : IterTop(t, FALSE)
    \/ \E t \in TaskIds : \E o \in OkOutcomes(t) : FetchOk(t, o)
    \/ \E t \in TaskIds : AcquireDuck(t)
    \/ \E t \in TaskIds : InsertBatch(t, TRUE)
    \/ \E t \in TaskIds :
          \E v \in AnyVectors(Len(loc[t].response.items)) : Embed(t, TRUE, v)
    \/ \E t \in TaskIds : LanceNames(t)
    \/ \E t \in TaskIds : LanceAdd(t, TRUE)
    \/ \E t \in TaskIds : Sleep(t)
    \/ Join
    \/ CreateIndex
    \/ CreateEventsIndex

SpecDim == Init /\ [][NextDim]_vars

\* ------------------------------------------------------------------ get_quote
\* A ticker is the sequence of its characters.
StartsWith(ticker, prefix) ==
    Len(ticker) >= Len(prefix) /\ SubSeq(ticker, 1, Len(prefix)) = prefix

\* Mutant: a ticker that is not recognised goes to Kalshi, as in the fetch
\* commands.
detect_KalshiDefault(ticker) ==
    IF StartsWith(ticker, <<"0", "x">>) THEN "Polymarket" ELSE "Kalshi"

\* MarketSource::detect
detect(ticker) ==
    IF StartsWith(ticker, <<"K", "X">>) THEN "Kalshi"
    ELSE IF StartsWith(ticker, <<"0", "x">>) THEN "Polymarket"
    ELSE "Unknown"

\* GetMarketQuote::execute, given whether the exchange client's call succeeds.
GetMarketQuote_execute(ticker, exchange, client_ok) ==
    LET source == IF exchange = None THEN detect(ticker) ELSE exchange[1]
    IN CASE source = "Kalshi" -> [called |-> {"Kalshi"}, ok |-> client_ok]
         [] source = "Polymarket" -> [called |-> {"Polymarket"}, ok |-> client_ok]
         [] OTHER -> [called |-> {}, ok |-> FALSE]

\* UnipredCore::get_quote(ticker, exchange); the call keeps no state, so one
\* call is followed.
GetQuote(ticker, exchange, client_ok) ==
    /\ ~quote.made
    /\ quote' = [made |-> TRUE, ticker |-> ticker, exchange |-> exchange,
                 called |-> GetMarketQuote_execute(ticker, exchange, client_ok).called,
                 ok |-> GetMarketQuote_execute(ticker, exchange, client_ok).ok]
    /\ UNCHANGED <<runPc, runResult, tasks, max_pages, has_cancel, filter, py_call,
                   kalshi, last_call, indexCalls, taskVars, storeVars>>

TickerChars == {"K", "X", "0", "x"}
QuoteTickers == SeqsUpTo(TickerChars, MaxTickerLen)
QuoteExchanges == {None, Some("Kalshi"), Some("Polymarket"), Some("Unknown")}

NextQuote ==
    \E ticker \in QuoteTickers, exchange \in QuoteExchanges, client_ok \in BOOLEAN :
        GetQuote(ticker, exchange, client_ok)

SpecQuote == Init /\ [][NextQuote]_vars

\* --------------------------------------------------------- the fan-out alone
\* run() up to join_all for every filter whose lists have at most MaxListLen
\* entries, repeated and unknown ones included.
AllExchanges == {"Kalshi", "Polymarket", "Unknown"}
AllStatuses == {"active", "closed"}
FanFilters == {IngestionFilter(ex, st, mp) :
                  ex \in SeqsUpTo(AllExchanges, MaxListLen),
                  st \in SeqsUpTo(AllStatuses, MaxListLen),
                  mp \in PageLimits}

NextFan == \E f \in FanFilters, c \in BOOLEAN : Run(f, c)

SpecFan == Init /\ [][NextFan]_vars

\* ---------------------------------------------------- the Python entry point
\* str::to_lowercase on the names a caller may pass.
to_lowercase(s) ==
    CASE s = "Kalshi" -> "kalshi"
      [] s = "POLYMARKET" -> "polymarket"
      [] OTHER -> s

\* The filter_map over the exchange names: a name that is neither kalshi nor
\* polymarket yields nothing.
RECURSIVE ParseExchanges(_)
ParseExchanges(names) ==
    IF names = <<>> THEN <<>>
    ELSE (CASE to_lowercase(Head(names)) = "kalshi" -> <<"Kalshi">>
            [] to_lowercase(Head(names)) = "polymarket" -> <<"Polymarket">>
            [] OTHER -> <<>>)
         \o ParseExchanges(Tail(names))

\* The IngestionFilter ingest_all hands to run(): the default (empty lists, no
\* max_pages) with the lists the caller gave.
PyFilter(exchanges, statuses) ==
    IngestionFilter(IF exchanges = None THEN <<>> ELSE ParseExchanges(exchanges[1]),
                    IF statuses = None THEN <<>> ELSE statuses[1],
                    None)

\* UnipredCore.ingest_all(db_path, lancedb_path, exchanges, statuses) up to
\* join_all inside run().
IngestAll(exchanges, statuses) ==
    /\ RunWith(PyFilter(exchanges, statuses), FALSE)
    /\ py_call' = Some(exchanges)

PyNames == {"kalshi", "Kalshi", "polymarket", "POLYMARKET", "nasdaq"}
PyExchangeArgs == {None} \cup {Some(l) : l \in SeqsUpTo(PyNames, MaxListLen)}
PyStatusArgs == {None, Some(<<"active">>), Some(<<"closed">>), Some(<<"active", "closed">>)}

NextPy == \E exchanges \in PyExchangeArgs, statuses \in PyStatusArgs :
              IngestAll(exchanges, statuses)

SpecPy == Init /\ [][NextPy]_vars

\* ------------------------------------------------------- the Kalshi client
\* What the login endpoint may answer: an error of the request or of the JSON
\* decoding, or a LoginResponse.
LoginTokens == {"tok1", "tok2", "tok3"}
LoginMembers == {"m1", "m2"}
LoginErr == [ok |-> FALSE, token |-> "", member_id |-> ""]
LoginResponses ==
    {LoginErr} \cup [ok : {TRUE}, token : LoginTokens, member_id : LoginMembers]

\* What reading the key file may give: an I/O error, a file that is not a
\* PKCS#1 PEM, or a private key.
KeyIds == {"k1", "k2"}
PrivateKeys == {"pk1", "pk2"}
KeyFileErr == [ok |-> FALSE, key |-> ""]
KeyFiles == {KeyFileErr} \cup [ok : {TRUE}, key : PrivateKeys]

\* Mutant: login leaves the API key in place.
login_KeepsApiKey(client, response) ==
    IF ~response.ok THEN client
    ELSE [client EXCEPT !.curr_token = Some(<<"Bearer", response.token>>),
                        !.member_id = Some(response.member_id)]

\* Kalshi::login: the fields of the client after the call.
login(client, response) ==
    IF ~response.ok THEN client
    ELSE [curr_token |-> Some(<<"Bearer", response.token>>),
          member_id |-> Some(response.member_id),
          private_key |-> None,
          api_key_id |-> None]

\* Kalshi::login_apikey: the fields of the client after the call.
login_apikey(client, key_id, file) ==
    IF ~file.ok THEN client
    ELSE [private_key |-> Some(file.key),
          api_key_id |-> Some(key_id),
          curr_token |-> None,
          member_id |-> None]

\* kalshi.login(user, password).await returned.
Login(response) ==
    /\ kalshi' = login(kalshi, response)
    /\ last_call' = [method |-> "login", ok |-> response.ok, before |-> kalshi]
    /\ UNCHANGED <<runPc, runResult, tasks, max_pages, has_cancel, filter, quote,
                   py_call, indexCalls, taskVars, storeVars>>

\* kalshi.login_apikey(key_id, private_key_path).await returned.
LoginApikey(key_id, file) ==
    /\ kalshi' = login_apikey(kalshi, key_id, file)
    /\ last_call' = [method |-> "login_apikey", ok |-> file.ok, before |-> kalshi]
    /\ UNCHANGED <<runPc, runResult, tasks, max_pages, has_cancel, filter, quote,
                   py_call, indexCalls, taskVars, storeVars>>

NextAuth ==
    \/ \E response \in LoginResponses : Login(response)
    \/ \E key_id \in KeyIds, file \in KeyFiles : LoginApikey(key_id, file)

SpecAuth == Init /\ [][NextAuth]_vars

\* ------------------------------------------------- the Table Store used directly
\* The rows handed to DuckStore by a caller that owns the store.
DuckSources == {"Kalshi", "Polymarket"}
MarketRows == [ticker : Tickers, source : DuckSources, payload : Payloads]
EventRows == [ticker : {"T1"}, source : {"Kalshi"}, payload : Payloads]
MarketBatches == SeqsUpTo(MarketRows, MaxBatch)
EventBatches == SeqsUpTo(EventRows, MaxBatch)

\* One call of insert_batch / insert_events_batch: the batch commits, or the
\* call returns Err with the transaction dropped.
DuckCall(kind, batch, ok) ==
    /\ runPc = "idle"
    /\ duckLock = 0
    /\ duck' = IF ok THEN DuckInsert(duck, kind, batch) ELSE duck
    /\ latest' = IF ok THEN Commit(latest, kind, batch) ELSE latest
    /\ replaced' = (replaced \/ (ok /\ Replaces(duck, kind, batch)))
    /\ UNCHANGED <<runVars, taskVars, duckLock, lance>>

NextDuck ==
    \/ \E b \in MarketBatches, ok \in BOOLEAN : DuckCall("markets", b, ok)
    \/ \E b \in EventBatches, ok \in BOOLEAN : DuckCall("events", b, ok)

SpecDuck == Init /\ [][NextDuck]_vars

\* ====================================================================== claims
HasLimit == runPc # "idle" /\ max_pages # None
Limit == max_pages[1]

\* C1 (as amended): with max_pages = N a task gets at most N pages, that is at
\* most N calls of cmd.execute return Ok; the failed attempts of a page are not
\* counted against N, and a page takes at most max_retries + 1 calls.
C1_PagesBounded ==
    HasLimit =>
        \A t \in TaskIds :
            /\ hist[t].fetch_ok <= Limit
            /\ hist[t].fetch_failed <= max_retries + 1

\* C1 (original): with max_pages = N a task makes at most N fetch calls (here
\* counted without the failed attempts of the pages before the current one).
C1_Original ==
    HasLimit => \A t \in TaskIds : hist[t].fetch_ok + hist[t].fetch_failed <= Limit

\* C1 witness: a task stopped by the limit after fetching exactly N >= 1 pages
\* from a source that had handed it a cursor for one more.
C1_Witness ==
    /\ HasLimit /\ Limit >= 1
    /\ \E t \in TaskIds : result[t] = Completed("limit") /\ hist[t].fetch_ok = Limit

\* C2: the mock source being finite (it returns an empty page, an empty
\* cursor, a repeated cursor, or at most MaxSrcPages advancing cursors), every
\* task of a run reaches a terminal state, with or without max_pages and
\* cancel_check, whether its fetches succeed or fail.
C2_Terminates == (runPc = "joining") ~> AllDone

\* C2 witness: every task is terminal, one of them stopped by a repeated cursor
\* on its second page.
C2_Witness ==
    /\ runPc = "joining" /\ AllDone
    /\ \E t \in TaskIds : result[t] = Completed("stalled") /\ hist[t].fetch_ok = 2

\* C3 (as amended): a task whose every fetch attempt for a page fails stops
\* Fatal after exactly max_retries + 1 = 6 attempts for that page (the first
\* attempt and 5 retries), and never makes a 7th.
C3_SixAttempts ==
    \A t \in TaskIds :
        /\ hist[t].fetch_failed <= max_retries + 1
        /\ result[t].cause = "fetch" =>
              /\ result[t].state = "Fatal"
              /\ hist[t].fetch_failed = max_retries + 1
        /\ (Terminal(t) /\ hist[t].fetch_failed # 0) => result[t].cause = "fetch"

\* C3 (original): the task stops after exactly 5 attempts for the page and never
\* makes a 6th attempt.
C3_Original == \A t \in TaskIds : hist[t].fetch_failed <= max_retries

\* C3 witness: a task is Fatal after its page's fetch failed at every attempt.
C3_Witness ==
    \E t \in TaskIds : result[t].cause = "fetch" /\ hist[t].fetch_ok = 0

\* C4: the k-th backoff sleep of a page (k from 0) lasts 2^k seconds, so the
\* sleeps are 1, 2, 4, 8, 16 in that order, none above 16, and a page that ends
\* Fatal has slept 31 seconds in all.
C4_Backoff ==
    \A t \in TaskIds :
        /\ \A k \in 1..Len(hist[t].slept) :
              /\ hist[t].slept[k] = Pow2(k - 1)
              /\ hist[t].slept[k] <= 16
        /\ Len(hist[t].slept) = loc[t].retries \/ Terminal(t)
        /\ result[t].cause = "fetch" =>
              /\ hist[t].slept = <<1, 2, 4, 8, 16>>
              /\ SumSeq(hist[t].slept) = 31

\* C4 witness: a task Fatal on its second page, with the five sleeps behind it.
C4_Witness ==
    \E t \in TaskIds :
        /\ result[t].cause = "fetch"
        /\ hist[t].fetch_ok = 1
        /\ Len(hist[t].slept) = max_retries

\* C5: once a task of the run has returned Err, every sibling that has not
\* returned can still take the next step of its own loop (a sibling waiting for
\* the Table Store lock waits for a holder that can itself step and release
\* it), and run() is still waiting for them.
C5_SiblingsRun ==
    FailedTasks # {} =>
        \A t \in TaskIds :
            ~Terminal(t) =>
                /\ runPc = "joining"
                /\ \/ ENABLED TaskStep(t)
                   \/ /\ loc[t].pc = "lock"
                      /\ duckLock \in TaskIds \ {t}
                      /\ ~Terminal(duckLock)
                      /\ ENABLED TaskStep(duckLock)

\* C5 witness: one task has failed while a sibling is in the middle of a page,
\* about to append it to the Vector Store.
C5_Witness ==
    \E t, u \in TaskIds :
        /\ IsErr(result[t])
        /\ loc[u].pc = "lance_add"
        /\ hist[u].committed = 2

\* C6: run() leaves join_all only when every task is terminal; when it has
\* returned, its error is that of the failed task with the least submission
\* index, and it is Ok only if no task failed.
C6_FirstInOrder ==
    /\ runPc \notin {"idle", "joining"} => AllDone
    /\ runPc = "done" =>
          /\ FailedTasks # {} =>
                /\ runResult.task \in FailedTasks
                /\ \A u \in FailedTasks : runResult.task <= u
                /\ runResult = RunErr(runResult.task)
          /\ runResult.state = "Completed" => FailedTasks = {}

\* C6 witness: two tasks failed, the second one first in time; run() returned
\* the error of the first.
C6_Witness ==
    /\ runPc = "done"
    /\ firstFailed = 2
    /\ runResult.task = 1
    /\ runResult.cause # result[2].cause

Keys(table) == {<<x.ticker, x.source>> : x \in table}
IsPrefix(a, b) == Len(a) <= Len(b) /\ SubSeq(b, 1, Len(a)) = a
TableKept(old, new) == old # None => new # None /\ IsPrefix(old[1], new[1])

\* C7: no step of the engine, the return of run() with an error included,
\* removes a row key from a Table Store table or a record from a Vector Store
\* table: the keys only grow and each Vector Store table only gets longer.
C7_NoRollback ==
    [][/\ Keys(duck.markets) \subseteq Keys(duck'.markets)
       /\ Keys(duck.events) \subseteq Keys(duck'.events)
       /\ TableKept(lance.markets, lance'.markets)
       /\ TableKept(lance.events, lance'.events)
       /\ runPc' = "done" => UNCHANGED <<duck, lance>>]_vars

\* C7 witness: run() returned the error of a task that failed on its second
\* page, and the page it wrote is in both stores.
C7_Witness ==
    /\ runPc = "done" /\ IsErr(runResult)
    /\ \E t \in FailedTasks :
          /\ tasks[t].kind = "markets"
          /\ result[t].cause = "lance"
          /\ hist[t].committed = 2 /\ hist[t].appended = 1
          /\ duck.markets # {}
          /\ lance.markets # None /\ Len(lance.markets[1]) >= 1

TaskDuckTable(t) == IF tasks[t].kind = "markets" THEN duck.markets ELSE duck.events

\* C8: a task has appended no more pages than it has committed; while it is
\* inside add_markets / add_events for a page, that page is committed, its rows
\* are in the Table Store and the guard is released; and every record of the
\* Vector Store has its row in the Table Store.
C8_CommitBeforeAppend ==
    /\ \A t \in TaskIds :
          /\ hist[t].appended <= hist[t].committed
          /\ loc[t].pc \in {"lance_names", "lance_add"} =>
                /\ hist[t].committed = hist[t].appended + 1
                /\ duckLock # t
                /\ \A i \in 1..Len(loc[t].lance_records) :
                      <<loc[t].lance_records[i].ticker,
                        loc[t].lance_records[i].source>> \in Keys(TaskDuckTable(t))
    /\ \A k \in Kinds :
          LanceTable(k) # None =>
              \A i \in 1..Len(LanceTable(k)[1]) :
                  <<LanceTable(k)[1][i].ticker, LanceTable(k)[1][i].source>>
                      \in Keys(IF k = "markets" THEN duck.markets ELSE duck.events)

\* C8 witness: a task is about to append its second page, both pages committed.
C8_Witness ==
    \E t \in TaskIds :
        /\ loc[t].pc = "lance_add"
        /\ tasks[t].kind = "markets"
        /\ hist[t].committed = 2 /\ hist[t].appended = 1
        /\ loc[t].lance_records # <<>>

OneRowPerKey(table) == \A x, y \in table : SameKey(x, y) => x = y

\* C9: after any sequence of insert_batch / insert_events_batch calls a table
\* holds at most one row per (ticker, source), namely the row of the last
\* committed upsert of the key, and upserting any batch a second time changes
\* nothing.
C9_Upsert ==
    /\ OneRowPerKey(duck.markets) /\ OneRowPerKey(duck.events)
    /\ duck = latest
    /\ \A b \in MarketBatches :
          insert_batch(insert_batch(duck.markets, b), b) = insert_batch(duck.markets, b)
    /\ \A b \in EventBatches :
          insert_events_batch(insert_events_batch(duck.events, b), b)
              = insert_events_batch(duck.events, b)

\* C9 witness: after an upsert that rewrote a stored key, T1 of Kalshi holds
\* p2 and not p1, next to the row of the same ticker from the other source.
C9_Witness ==
    /\ replaced
    /\ [ticker |-> "T1", source |-> "Kalshi", payload |-> "p2"] \in duck.markets
    /\ [ticker |-> "T1", source |-> "Polymarket", payload |-> "p1"] \in duck.markets
    /\ [ticker |-> "T1", source |-> "Kalshi", payload |-> "p1"] \notin duck.markets
    /\ Cardinality(duck.markets) = 2

\* C10: a task whose embedder call returned Err is terminal and Fatal for that
\* reason (no second embedder call, no further fetch: every page it fetched was
\* committed, the failed one last), has appended every page but the failed
\* one, and the rows it committed are in the Table Store.
C10_EmbedFailure ==
    \A t \in TaskIds :
        hist[t].embed_failed =>
            /\ Terminal(t)
            /\ result[t] = Failed("Fatal", "embed", "")
            /\ hist[t].committed = hist[t].fetch_ok
            /\ hist[t].appended = hist[t].committed - 1
            /\ TaskDuckTable(t) # {}

\* C10 witness: the embedder failed on the second page of a markets task; the
\* Vector Store holds the first page only.
C10_Witness ==
    \E t \in TaskIds :
        /\ hist[t].embed_failed
        /\ tasks[t].kind = "markets"
        /\ hist[t].committed = 2
        /\ lance.markets # None /\ Len(lance.markets[1]) = 1

\* C11: the step in which cancel_check returns Err leaves the task terminal
\* and Aborted with no request issued, and from then on the task's counts of
\* fetches, Table Store commits and Vector Store appends never change and it
\* never holds the Table Store guard.
C11_CancelStops ==
    [][\A t \in DOMAIN hist' :
          hist'[t].cancelled =>
              /\ loc'[t].pc = "done"
              /\ result'[t] = Failed("Aborted", "cancel", "")
              /\ loc'[t].request = NoRequest
              /\ duckLock' # t
              /\ (t \in DOMAIN hist /\ hist[t].cancelled) => hist'[t] = hist[t]
              /\ (t \in DOMAIN hist /\ ~hist[t].cancelled) =>
                    /\ hist'[t].fetch_ok = hist[t].fetch_ok
                    /\ hist'[t].fetch_failed = hist[t].fetch_failed
                    /\ hist'[t].committed = hist[t].committed
                    /\ hist'[t].appended = hist[t].appended
                    /\ UNCHANGED <<duck, lance>>]_vars

\* C11 witness: a task cancelled at the top of its second iteration, one page
\* written, while a sibling is still between its writes.
C11_Witness ==
    \E t, u \in TaskIds :
        /\ hist[t].cancelled
        /\ hist[t].fetch_ok = 1 /\ hist[t].committed = 1 /\ hist[t].appended = 1
        /\ loc[u].pc = "embed"

IndexInvoked == indexCalls.markets + indexCalls.events > 0
                    \/ runPc \in {"index", "events_index"}

\* C12: the index builder is invoked only once every task is terminal and none
\* failed; a run that has returned with every task successful has invoked it
\* exactly once for the markets and exactly once for the events; it is never
\* invoked more than once per kind.
C12_IndexOncePerKind ==
    /\ IndexInvoked => AllDone /\ FailedTasks = {}
    /\ indexCalls.markets <= 1 /\ indexCalls.events <= 1
    /\ (runPc = "done" /\ FailedTasks = {}) =>
          indexCalls.markets = 1 /\ indexCalls.events = 1

SetOf(seq) == {seq[i] : i \in 1..Len(seq)}
EffSourceSet == IF filter.exchanges = <<>> THEN {"Kalshi", "Polymarket"}
                ELSE SetOf(filter.exchanges)
EffStatusSet == IF filter.statuses = <<>> THEN {"active", "closed"}
                ELSE SetOf(filter.statuses)
\* One market task per status for a source with status-segmented pagination,
\* one event task more per status for Kalshi, one market task without status
\* for Polymarket.
ExpectedTasks ==
    {Task("markets", e, Some(s)) : e \in EffSourceSet \ {"Polymarket"}, s \in EffStatusSet}
    \cup {Task("events", e, Some(s)) : e \in EffSourceSet \cap {"Kalshi"}, s \in EffStatusSet}
    \cup {Task("markets", e, None) : e \in EffSourceSet \cap {"Polymarket"}}

\* C13: the tasks run() launches for a filter are exactly the expected ones,
\* each launched once; the default filter launches 5 tasks.
C13_ExactTasks ==
    runPc = "joining" =>
        /\ SetOf(tasks) = ExpectedTasks
        /\ Len(tasks) = Cardinality(ExpectedTasks)
        /\ (filter.exchanges = <<>> /\ filter.statuses = <<>>) => Len(tasks) = 5

\* The status a fetch of task t must carry to the exchange client.
SentStatus(t) ==
    IF tasks[t].status = None THEN None
    ELSE IF tasks[t].exchange = "Kalshi" /\ tasks[t].status[1] = "active"
    THEN Some("open")
    ELSE tasks[t].status

\* C14: every request a task has issued to its exchange client carries "open"
\* for Kalshi with the unified status "active", for markets and events alike,
\* and the task's status unchanged otherwise; the cursor is the task's own.
C14_StatusTranslation ==
    \A t \in TaskIds :
        loc[t].pc = "fetch" =>
            /\ loc[t].request.status = SentStatus(t)
            /\ loc[t].request.cursor = loc[t].cursor

\* C14 witness: the Kalshi markets task of an "active" run is fetching its
\* second page with "open" while the events task retries a fetch with "open".
C14_Witness ==
    \E t, u \in TaskIds :
        /\ tasks[t].kind = "markets" /\ tasks[u].kind = "events"
        /\ tasks[t].status = Some("active")
        /\ loc[t].pc = "fetch" /\ hist[t].fetch_ok = 1
        /\ loc[t].request.status = Some("open")
        /\ loc[u].pc = "fetch" /\ loc[u].retries = 1
        /\ loc[u].request.status = Some("open")

NonEmptyPages(t) == {i \in 1..Len(hist[t].pages) : hist[t].pages[i] # <<>>}

RECURSIVE PagesRecords(_, _)
PagesRecords(exchange, pages) ==
    IF pages = <<>> THEN <<>>
    ELSE ZipRecords(exchange, Head(pages),
                    [j \in 1..Len(Head(pages)) |-> VECTOR_DIM])
         \o PagesRecords(exchange, Tail(pages))

\* C15: with every call succeeding and neither max_pages nor cancel_check, a
\* terminal task is Completed and has committed and appended every non-empty
\* page it was handed; one whose k-th page came with an empty (or a repeated)
\* cursor after k - 1 pages with advancing cursors made exactly k fetches,
\* every record of the k pages has its row in the Table Store, and its Vector
\* Store table is the records of the k pages in order.
C15_AllPagesWritten ==
    \A t \in TaskIds :
        Terminal(t) =>
            /\ result[t].state = "Completed"
            /\ hist[t].committed = Cardinality(NonEmptyPages(t))
            /\ hist[t].appended = Cardinality(NonEmptyPages(t))
            /\ result[t].cause \in {"end", "stalled"} =>
                  /\ hist[t].fetch_ok = Len(hist[t].pages)
                  /\ NonEmptyPages(t) = 1..Len(hist[t].pages)
                  /\ \A i \in 1..Len(hist[t].pages) :
                        \A j \in 1..Len(hist[t].pages[i]) :
                            hist[t].pages[i][j] \in TaskDuckTable(t)
                  /\ LanceTable(tasks[t].kind)
                        = Some(PagesRecords(tasks[t].exchange, hist[t].pages))

\* C15 witness: k = 2, page 1 with two records and a cursor, page 2 with one
\* record and the empty cursor: 2 fetches, 3 records in the Vector Store.
C15_Witness ==
    \E t \in TaskIds :
        /\ result[t] = Completed("end")
        /\ hist[t].fetch_ok = 2
        /\ Len(hist[t].pages) = 2
        /\ Len(hist[t].pages[1]) = 2 /\ Len(hist[t].pages[2]) = 1
        /\ Len(lance.markets[1]) = 3
        /\ Cardinality(duck.markets) = 2

\* C16: on every page, the first one or a later one, a task that is fetching
\* has retried exactly as often as this page's fetch has failed, and one that
\* is backing off has retried once less; so the first attempt of a page is
\* made with retries = 0, its first backoff is 1 second, and a page is only
\* given up after max_retries + 1 failures of its own.
C16_RetriesPerPage ==
    \A t \in TaskIds :
        /\ loc[t].pc = "fetch" => loc[t].retries = hist[t].fetch_failed
        /\ loc[t].pc = "backoff" => loc[t].retries = hist[t].fetch_failed - 1
        /\ loc[t].pc \in {"fetch", "backoff"} => loc[t].retries = Len(hist[t].slept)
        /\ hist[t].slept # <<>> => hist[t].slept[1] = 1
        /\ (result[t].cause = "fetch" /\ hist[t].fetch_ok >= 1) =>
              hist[t].fetch_failed = max_retries + 1

\* C16 witness: a task that already fetched a page is on the last retry of the
\* next page, after the five sleeps 1, 2, 4, 8, 16 of that page.
C16_Witness ==
    \E t \in TaskIds :
        /\ hist[t].fetch_ok = 1
        /\ loc[t].pc = "fetch"
        /\ loc[t].page_count = 1
        /\ loc[t].retries = max_retries
        /\ hist[t].slept = <<1, 2, 4, 8, 16>>

\* C17: the error of a task that gave up fetching, and the error run() returns
\* for it, names the task's source, status, record kind and page number.
C17_ErrorContext ==
    /\ \A t \in TaskIds :
          result[t].cause = "fetch" =>
              {"source", "status", "kind", "page"} \subseteq ContextNames(result[t].context)
    /\ (runPc = "done" /\ runResult.cause = "fetch") =>
          {"source", "status", "kind", "page"} \subseteq ContextNames(runResult.context)

HasPrefix(ticker, a, b) == Len(ticker) >= 2 /\ ticker[1] = a /\ ticker[2] = b

\* C18: a get_quote call without an exchange calls the Kalshi client, and only
\* it, for a ticker that begins with KX, the Polymarket client, and only it,
\* for one that begins with 0x, and for any other ticker calls no client and
\* returns an error; a call with an exchange goes to that exchange's client
\* whatever the ticker begins with.
C18_QuoteSource ==
    quote.made =>
        /\ (quote.exchange = None /\ HasPrefix(quote.ticker, "K", "X")) =>
              quote.called = {"Kalshi"}
        /\ (quote.exchange = None /\ HasPrefix(quote.ticker, "0", "x")) =>
              quote.called = {"Polymarket"}
        /\ (/\ quote.exchange = None
            /\ ~HasPrefix(quote.ticker, "K", "X")
            /\ ~HasPrefix(quote.ticker, "0", "x")) =>
              quote.called = {} /\ ~quote.ok
        /\ quote.exchange \in {Some("Kalshi"), Some("Polymarket")} =>
              quote.called = {quote.exchange[1]}
        /\ quote.exchange = Some("Unknown") => quote.called = {} /\ ~quote.ok

\* C18 witness: a ticker that holds KX but does not begin with it, no exchange
\* given: the call failed without reaching a client.
C18_Witness ==
    /\ quote.made
    /\ quote.ticker = <<"x", "K", "X">>
    /\ quote.exchange = None
    /\ quote.called = {}
    /\ ~quote.ok

\* C19: no two tasks launched by one run() have the same source, status and
\* record kind.
C19_NoDuplicateTasks ==
    \A i, j \in TaskIds : i # j => tasks[i] # tasks[j]

InTransaction == {t \in TaskIds : loc[t].pc = "insert"}

\* C20: at most one task is between taking the Table Store guard and the
\* return of its insert, and it is the holder of the guard; and the Table Store
\* is, key by key, the row of the last batch that was committed for the key.
C20_SerializedWrites ==
    /\ Cardinality(InTransaction) <= 1
    /\ \A t \in TaskIds : loc[t].pc = "insert" <=> duckLock = t
    /\ duck = latest
    /\ OneRowPerKey(duck.markets)

\* C20 witness: one task holds the guard for a batch that rewrites the row the
\* other task committed, while that other task waits for the guard with its
\* next page.
C20_Witness ==
    \E t, u \in TaskIds :
        /\ loc[t].pc = "insert" /\ loc[u].pc = "lock"
        /\ hist[u].committed = 1
        /\ replaced
        /\ \E x \in duck.markets : x # loc[t].response.items[1]

\* C21: a task that is at the head of its loop, fetching, backing off or in
\* its inter-page sleep holds no page: every page it fetched is committed and
\* appended. A task holds at most one page, and that page is the only one not
\* yet written: not committed while the task waits for or holds the guard,
\* committed and not appended while it embeds and appends.
C21_PagesSequential ==
    \A t \in TaskIds :
        /\ hist[t].appended <= hist[t].committed
        /\ hist[t].committed <= hist[t].fetch_ok
        /\ hist[t].fetch_ok <= hist[t].appended + 1
        /\ loc[t].pc \in {"top", "fetch", "backoff", "sleep"} =>
              /\ hist[t].committed = hist[t].fetch_ok
              /\ hist[t].appended = hist[t].fetch_ok
              /\ loc[t].page_count = hist[t].appended
              /\ loc[t].response = NoPage /\ loc[t].lance_records = <<>>
        /\ loc[t].pc \in {"lock", "insert"} =>
              /\ hist[t].committed = hist[t].fetch_ok - 1
              /\ hist[t].appended = hist[t].committed
        /\ loc[t].pc \in {"embed", "lance_names", "lance_add"} =>
              /\ hist[t].committed = hist[t].fetch_ok
              /\ hist[t].appended = hist[t].committed - 1

\* C21 witness: the fetch of the second page is in flight, the first page is
\* in both stores.
C21_Witness ==
    \E t \in TaskIds :
        /\ loc[t].pc = "fetch" /\ loc[t].page_count = 1
        /\ hist[t].fetch_ok = 1 /\ hist[t].committed = 1 /\ hist[t].appended = 1
        /\ TaskDuckTable(t) # {}
        /\ LanceTable(tasks[t].kind) # None

\* C22: with every I/O call succeeding, no markets task fails in add_markets,
\* whatever the interleaving of the tasks that find the table missing, and the
\* table holds one record for every page the markets tasks have appended.
C22_ConcurrentCreate ==
    /\ \A t \in TaskIds : tasks[t].kind = "markets" => result[t].cause # "lance"
    /\ Len(IF lance.markets = None THEN <<>> ELSE lance.markets[1])
          = SumSeq([t \in TaskIds |->
                      IF tasks[t].kind = "markets" THEN hist[t].appended ELSE 0])

\* C23: cancel_check is called only in the step that leaves the head of the
\* loop, once, and not when that step stops the task at max_pages; a step
\* that ends a fetch attempt or a backoff sleep calls nothing and never leaves
\* the task Aborted. A task that went past the head of the loop k times has
\* made k calls when a cancel_check was given, and none otherwise.
C23_CheckOncePerIteration ==
    [][\A t \in DOMAIN hist :
          t \in DOMAIN hist' =>
              /\ hist'[t].polled - hist[t].polled =
                    IF /\ has_cancel
                       /\ loc[t].pc = "top" /\ loc'[t].pc # "top"
                       /\ result'[t] # Completed("limit")
                    THEN 1 ELSE 0
              /\ (result[t].state # "Aborted" /\ result'[t].state = "Aborted") =>
                    loc[t].pc = "top"
              /\ loc'[t].pc \in {"fetch", "backoff"} =>
                    hist'[t].polled = IF has_cancel THEN loc'[t].page_count + 1 ELSE 0]_vars

\* C23 witness: a task given a cancel_check is on the last retry of its second
\* page with two calls behind it, one per page.
C23_Witness ==
    \E t \in TaskIds :
        /\ has_cancel
        /\ loc[t].pc = "fetch" /\ loc[t].retries = max_retries
        /\ loc[t].page_count = 1
        /\ hist[t].polled = 2

\* C24: the step in which a fetch returns an empty page, with whatever
\* cursor, leaves the task terminal and Completed, with the guard, both stores
\* and the task's counts of commits and appends as they were; a task stopped
\* this way never held the page in its locals.
C24_EmptyPageStops ==
    [][\A t \in DOMAIN hist :
          (t \in DOMAIN hist' /\ hist'[t].empty_cursor # hist[t].empty_cursor) =>
              /\ loc[t].pc = "fetch"
              /\ loc'[t].pc = "done"
              /\ result'[t] = Completed("empty")
              /\ hist'[t].committed = hist[t].committed
              /\ hist'[t].appended = hist[t].appended
              /\ hist'[t].embed_failed = hist[t].embed_failed
              /\ UNCHANGED <<duck, duckLock, lance, latest>>]_vars

\* C24 witness: the second page of a task came empty with a cursor that is not
\* empty; the task is Completed with one page written.
C24_Witness ==
    \E t \in TaskIds :
        /\ result[t] = Completed("empty")
        /\ hist[t].empty_cursor = Some("c2")
        /\ hist[t].fetch_ok = 2 /\ hist[t].committed = 1 /\ hist[t].appended = 1
        /\ hist[t].pages[2] = <<>>

\* C25: the step in which the append of a page returns Ok finds the page's
\* rows in the Table Store and leaves its records at the end of the Vector
\* Store table; if the page's cursor is empty or the one the task sent, the
\* task is terminal and Completed, otherwise it goes to its sleep with the new
\* cursor, which differs from the one it sent. A terminal task fetches nothing.
C25_LastPageWritten ==
    [][\A t \in DOMAIN hist :
          t \in DOMAIN hist' =>
              /\ hist'[t].appended = hist[t].appended + 1 =>
                    /\ loc[t].response.items # <<>>
                    /\ \A i \in 1..Len(loc[t].response.items) :
                          <<loc[t].response.items[i].ticker,
                            loc[t].response.items[i].source>>
                              \in Keys(IF tasks[t].kind = "markets" THEN duck'.markets
                                       ELSE duck'.events)
                    /\ LET table == IF tasks[t].kind = "markets" THEN lance'.markets
                                    ELSE lance'.events
                           n == Len(loc[t].response.items)
                       IN /\ table # None /\ Len(table[1]) >= n
                          /\ \A i \in 1..n :
                                table[1][Len(table[1]) - n + i].ticker
                                    = loc[t].response.items[i].ticker
                    /\ IF \/ loc[t].response.cursor = ""
                          \/ Some(loc[t].response.cursor) = loc[t].cursor
                       THEN /\ loc'[t].pc = "done"
                            /\ result'[t].state = "Completed"
                            /\ result'[t].cause \in {"end", "stalled"}
                       ELSE /\ loc'[t].pc = "sleep"
                            /\ loc'[t].cursor = Some(loc[t].response.cursor)
                            /\ loc'[t].cursor # loc[t].cursor
                            /\ loc'[t].cursor # Some("")
              /\ loc[t].pc = "done" =>
                    /\ loc'[t].pc = "done"
                    /\ hist'[t] = hist[t]]_vars

\* C25 witness: a task sent the cursor of its first page for the second page,
\* got a page with that cursor again, wrote it to both stores and is Completed
\* after two fetches.
C25_Witness ==
    \E t \in TaskIds :
        /\ result[t] = Completed("stalled")
        /\ hist[t].fetch_ok = 2 /\ hist[t].committed = 2 /\ hist[t].appended = 2
        /\ LanceTable(tasks[t].kind) # None
        /\ Len(LanceTable(tasks[t].kind)[1]) >= 2
        /\ runPc = "joining"

RECURSIVE PagesLen(_, _)
PagesLen(pages, n) ==
    IF n = 0 \/ pages = <<>> THEN 0 ELSE Len(Head(pages)) + PagesLen(Tail(pages), n - 1)

\* C26: every record of the Vector Store has a vector of VECTOR_DIM elements.
\* A task whose batch held a vector of another length, alone or next to good
\* ones, is terminal and Fatal for that reason, and the Vector Store holds the
\* records of the pages appended before and no record of that batch; no task
\* stops for that reason on a batch of good vectors.
C26_VectorDim ==
    /\ \A k \in Kinds :
          LanceTable(k) # None =>
              \A i \in 1..Len(LanceTable(k)[1]) : LanceTable(k)[1][i].vector = VECTOR_DIM
    /\ \A t \in TaskIds :
          /\ hist[t].bad_vector <=> result[t].cause = "dimension"
          /\ hist[t].bad_vector =>
                /\ Terminal(t) /\ result[t].state = "Fatal"
                /\ hist[t].appended = hist[t].committed - 1
                /\ Len(IF LanceTable(tasks[t].kind) = None THEN <<>>
                       ELSE LanceTable(tasks[t].kind)[1])
                      = PagesLen(hist[t].pages, hist[t].appended)

\* C26 witness: the second page of the task had two records, one of them with
\* a short vector; the Vector Store holds the first page only.
C26_Witness ==
    \E t \in TaskIds :
        /\ hist[t].bad_vector
        /\ hist[t].fetch_ok = 2 /\ Len(hist[t].pages[2]) = 2
        /\ hist[t].appended = 1
        /\ Len(lance.markets[1]) = Len(hist[t].pages[1])
        /\ runPc = "done" /\ runResult.cause = "dimension"

\* C27: a run whose tasks all completed returns Ok, also when no record of
\* some kind was ingested: neither index call fails on a table that holds no
\* rows or was never created.
C27_IndexOnEmptyStore ==
    (runPc = "done" /\ FailedTasks = {}) => runResult.state = "Completed"

\* C28: a Vector Store table holds at most one record per id (source and
\* ticker).
C28_OneRecordPerId ==
    \A k \in Kinds :
        LanceTable(k) # None =>
            \A i, j \in 1..Len(LanceTable(k)[1]) :
                LanceTable(k)[1][i].id = LanceTable(k)[1][j].id => i = j

\* C29: the step in which a task leaves its insert without a commit leaves
\* the Table Store and the Vector Store as they were and the guard free, and
\* the task terminal and Fatal for that reason with its counters unchanged;
\* from then on nothing of the task changes: no second insert, no embedding, no
\* append.
C29_InsertFailure ==
    [][\A t \in DOMAIN hist :
          t \in DOMAIN hist' =>
              /\ (/\ loc[t].pc = "insert" /\ loc'[t].pc # "insert"
                  /\ hist'[t].committed = hist[t].committed) =>
                    /\ duck' = duck /\ lance' = lance
                    /\ duckLock = t /\ duckLock' = 0
                    /\ loc'[t].pc = "done"
                    /\ result'[t] = Failed("Fatal", "duck", "")
                    /\ hist'[t] = hist[t]
              /\ result[t].cause = "duck" =>
                    /\ loc'[t].pc = "done" /\ result'[t] = result[t]
                    /\ hist'[t] = hist[t]
                    /\ hist[t].appended = hist[t].committed
                    /\ hist[t].fetch_ok = hist[t].committed + 1
                    /\ duckLock' # t]_vars

\* C29 witness: the insert of a task's second page failed; the stores hold its
\* first page, the guard is free and a sibling is still running.
C29_Witness ==
    \E t, u \in TaskIds :
        /\ result[t] = Failed("Fatal", "duck", "")
        /\ hist[t].fetch_ok = 2 /\ hist[t].committed = 1 /\ hist[t].appended = 1
        /\ TaskDuckTable(t) # {}
        /\ duckLock = 0
        /\ ~Terminal(u)

\* C30: with max_pages = N every task has committed at most N pages and
\* appended at most N pages; with N = 0 a task makes no fetch, writes nothing
\* and ends Completed. The count is the task's own: a sibling of a task that
\* stopped at the limit can still take the next step of its loop (or waits for
\* a guard whose holder can).
C30_LimitPerTask ==
    HasLimit =>
        \A t \in TaskIds :
            /\ hist[t].committed <= Limit
            /\ hist[t].appended <= Limit
            /\ Limit = 0 =>
                  /\ hist[t].fetch_ok = 0 /\ hist[t].fetch_failed = 0
                  /\ hist[t].pages = <<>>
                  /\ duck = EmptyStore /\ lance = NoTables
                  /\ Terminal(t) => result[t] = Completed("limit")
            /\ result[t] = Completed("limit") =>
                  \A u \in TaskIds :
                      ~Terminal(u) =>
                          /\ runPc = "joining"
                          /\ \/ ENABLED TaskStep(u)
                             \/ /\ loc[u].pc = "lock"
                                /\ duckLock \in TaskIds \ {t, u}
                                /\ ENABLED TaskStep(duckLock)

\* C30 witness: with max_pages = 1 the first task stopped at the limit after
\* its page while the second, with its own page already in the Table Store, is
\* about to append it: two pages in the Table Store for N = 1.
C30_Witness ==
    /\ HasLimit /\ Limit = 1
    /\ Len(tasks) = 2
    /\ result[1] = Completed("limit") /\ hist[1].committed = 1 /\ hist[1].appended = 1
    /\ loc[2].pc = "lance_add" /\ hist[2].committed = 1
    /\ hist[1].committed + hist[2].committed = 2 * Limit

LanceIds(k) ==
    IF LanceTable(k) = None THEN {}
    ELSE {LanceTable(k)[1][i].id : i \in 1..Len(LanceTable(k)[1])}
DuckIds(k) ==
    {<<x.source, x.ticker>> : x \in (IF k = "markets" THEN duck.markets ELSE duck.events)}

\* C31: once join_all has returned with every task successful, the ids of the
\* Vector Store table of each kind are the (source, ticker) keys of the Table
\* Store table of that kind. The embedder returns one vector per text.
C31_SameIds ==
    (runPc \in {"index", "events_index", "done"} /\ FailedTasks = {}) =>
        \A k \in Kinds : LanceIds(k) = DuckIds(k)

\* C31 witness: a run of one Polymarket task has returned Ok with two markets
\* in each store, fetched over two pages.
C31_Witness ==
    /\ runPc = "done" /\ runResult.state = "Completed"
    /\ Len(tasks) = 1 /\ hist[1].fetch_ok = 2
    /\ Cardinality(DuckIds("markets")) = 2
    /\ Cardinality(LanceIds("markets")) = 2

\* C32: the guard is held by a task only while it is in its insert; whenever
\* a task waits for the guard and no task is in its insert, the guard is free;
\* and a task that waits for the guard gets it.
C32_LockOnlyForWrite ==
    /\ [](\A t \in TaskIds :
             /\ duckLock = t => loc[t].pc = "insert"
             /\ (loc[t].pc = "lock" /\ \A u \in TaskIds : loc[u].pc # "insert") =>
                   duckLock = 0)
    /\ \A t \in 1..2 :
          (t \in TaskIds /\ loc[t].pc = "lock")
              ~> (t \in TaskIds /\ loc[t].pc \in {"insert", "embed", "done"})

\* C32 witness: a task waits with its second page for the guard that its
\* sibling holds for the insert of its own second page; both gave the guard
\* back after their first page.
C32_Witness ==
    \E t, u \in TaskIds :
        /\ loc[t].pc = "lock" /\ hist[t].committed = 1
        /\ loc[u].pc = "insert" /\ duckLock = u
        /\ hist[u].committed = 1

AppendedOf(k) ==
    SumSeq([t \in TaskIds |-> IF tasks[t].kind = k THEN hist[t].appended ELSE 0])

\* C33: in a run in which cancel_check has returned Err to some task, no
\* index call is ever made; when run() has returned, it returned the error of
\* the failed task of least submission index; and the stores still hold what
\* was written: a row for every task that committed a page, a record for
\* every page appended.
C33_CancelFailsRun ==
    (\E t \in TaskIds : hist[t].cancelled) =>
        /\ runPc \in {"joining", "done"}
        /\ indexCalls.markets = 0 /\ indexCalls.events = 0
        /\ runPc = "done" =>
              /\ IsErr(runResult)
              /\ runResult.task \in FailedTasks
              /\ \A u \in FailedTasks : runResult.task <= u
        /\ \A t \in TaskIds : hist[t].committed >= 1 => TaskDuckTable(t) # {}
        /\ \A k \in Kinds :
              Len(IF LanceTable(k) = None THEN <<>> ELSE LanceTable(k)[1]) = AppendedOf(k)

\* C33 witness: the second task was cancelled after writing one page, the
\* first completed; run() returned the cancellation and both stores hold the
\* pages of both tasks.
C33_Witness ==
    /\ runPc = "done"
    /\ Len(tasks) = 2
    /\ result[1].state = "Completed" /\ hist[1].appended = 1
    /\ hist[2].cancelled /\ hist[2].appended = 1
    /\ runResult.task = 2 /\ runResult.cause = "cancel"
    /\ duck.markets # {} /\ duck.events # {}
    /\ lance.markets # None /\ lance.events # None

\* C34: every attempt, first or retry, is sent with the task's cursor and
\* status; the cursor is None until a page was written and then the cursor the
\* last written page came with; a step that ends an attempt in failure or a
\* backoff sleep changes neither the cursor nor the page counter, which only
\* change together, in the step that ends the append of a page.
C34_CursorDiscipline ==
    [][\A t \in DOMAIN loc :
          t \in DOMAIN loc' =>
              /\ loc'[t].pc = "fetch" =>
                    /\ loc'[t].request.cursor = loc'[t].cursor
                    /\ loc'[t].request.status = SentStatus(t)
                    /\ hist'[t].fetch_ok = 0 => loc'[t].request.cursor = None
              /\ (loc[t].pc \in {"fetch", "backoff"}
                    /\ loc'[t].pc \in {"fetch", "backoff"}) =>
                    /\ loc'[t].cursor = loc[t].cursor
                    /\ loc'[t].page_count = loc[t].page_count
              /\ (loc'[t].pc # "done"
                    /\ (loc'[t].cursor # loc[t].cursor
                           \/ loc'[t].page_count # loc[t].page_count)) =>
                    /\ loc[t].pc = "lance_add" /\ loc'[t].pc = "sleep"
                    /\ loc'[t].cursor = Some(loc[t].response.cursor)
                    /\ loc'[t].page_count = loc[t].page_count + 1
                    /\ hist'[t].appended = loc'[t].page_count]_vars

\* C34 witness: the first attempt at the second page failed and the retry is
\* under way with the cursor c1 of the first page.
C34_Witness ==
    \E t \in TaskIds :
        /\ loc[t].pc = "fetch" /\ loc[t].retries = 1
        /\ loc[t].page_count = 1 /\ hist[t].fetch_ok = 1
        /\ loc[t].cursor = Some("c1")
        /\ loc[t].request.cursor = Some("c1")

\* The exchanges a list of names names, whatever the case of the letters.
NamedExchanges(names) ==
    {e \in {"Kalshi", "Polymarket"} :
        \E i \in 1..Len(names) :
            \/ e = "Kalshi" /\ names[i] \in {"kalshi", "Kalshi", "KALSHI"}
            \/ e = "Polymarket" /\ names[i] \in {"polymarket", "Polymarket", "POLYMARKET"}}

\* C35: when ingest_all was given a non-empty list of exchange names, every
\* task that run() launched is on an exchange the list names.
C35_OnlyNamedExchanges ==
    (py_call # None /\ py_call[1] # None /\ py_call[1][1] # <<>>) =>
        \A t \in TaskIds : tasks[t].exchange \in NamedExchanges(py_call[1][1])

TokenMode(c) == c.curr_token # None \/ c.member_id # None
KeyMode(c) == c.api_key_id # None \/ c.private_key # None

\* C36: the client never has a session token or member id together with an
\* API key or private key. After a login that returned Ok it has a token and
\* a member id and neither key field; after a login_apikey that returned Ok
\* it has both key fields and neither token nor member id; after a call that
\* returned Err it has the four fields it had before the call.
C36_OneAuthMode ==
    /\ ~(TokenMode(kalshi) /\ KeyMode(kalshi))
    /\ (last_call.method = "login" /\ last_call.ok) =>
          /\ kalshi.curr_token # None /\ kalshi.member_id # None
          /\ kalshi.api_key_id = None /\ kalshi.private_key = None
    /\ (last_call.method = "login_apikey" /\ last_call.ok) =>
          /\ kalshi.api_key_id # None /\ kalshi.private_key # None
          /\ kalshi.curr_token = None /\ kalshi.member_id = None
    /\ (last_call.method # "" /\ ~last_call.ok) => kalshi = last_call.before

\* C36 witness: a login succeeded on a client that was authenticated with an
\* API key: the token is set and the key is gone.
C36_Witness ==
    /\ last_call.method = "login" /\ last_call.ok
    /\ KeyMode(last_call.before)
    /\ kalshi.curr_token = Some(<<"Bearer", "tok2">>)
    /\ kalshi.api_key_id = None

====
